---- MODULE Spec2Model ----
(***************************************************************************)
(* Model of scripts/ranking_budget_diff_report.py: one run of main(), from *)
(* the two snapshot files to the markdown report at --out.                 *)
(*                                                                         *)
(* JSON values are tagged records; a dict is a function from its keys.     *)
(* Numbers are integers counting 1/2500ths (0.0004), so 2500 is 1.0 and    *)
(* 2000 is 0.80; both decimal formats of the script round 2v/5 to an       *)
(* integer, and for integer v that is never on a tie, so the float noise   *)
(* of a - b cannot change a rendered digit.                                *)
(***************************************************************************)
EXTENDS Integers, Sequences, FiniteSets, TLC

VARIABLES beforeFile, afterFile, parentExists, dest, ioFault,
          pc, outcome, before, after, lines, metric_i, metricRows,
          before_cases, after_cases, case_ids, case_i, caseRows

env == <<beforeFile, afterFile, parentExists, dest, ioFault>>
locals == <<before, after, lines, metric_i, metricRows,
            before_cases, after_cases, case_ids, case_i, caseRows>>
vars == <<beforeFile, afterFile, parentExists, dest, ioFault,
          pc, outcome, before, after, lines, metric_i, metricRows,
          before_cases, after_cases, case_ids, case_i, caseRows>>

\* Most case entries in the two case lists of one run, taken together.
MaxCases == 3

-----------------------------------------------------------------------------
(* JSON / Python values *)

Num(v) == [t |-> "num", v |-> v]
Str(s) == [t |-> "str", s |-> s]
List(items) == [t |-> "list", items |-> items]
None == [t |-> "null"]
Unbound == [t |-> "unbound"]
EmptyDict == [k \in {} |-> None]

Get(d, k, default) == IF k \in DOMAIN d THEN d[k] ELSE default

IsNumber(x) == x.t = "num"

\* float() of a JSON number keeps its value; float(None) raises TypeError, which
\* the callers decide with IsNumber before they use Float.
Float(x) == x.v

PyStr(x) == IF x.t = "str" THEN x.s ELSE "None"

-----------------------------------------------------------------------------
(* Number formatting *)

Abs(n) == IF n < 0 THEN 0 - n ELSE n

Sign(v) == IF v < 0 THEN "-" ELSE ""

RoundDiv(n, d) == (2 * n + d) \div (2 * d)

Scaled(v) == RoundDiv(2 * Abs(v), 5)

pct(value) ==
    Sign(value) \o ToString(Scaled(value) \div 10) \o "."
                \o ToString(Scaled(value) % 10) \o "%"

Pad3(n) ==
    IF n < 10 THEN "00" \o ToString(n)
    ELSE IF n < 100 THEN "0" \o ToString(n)
    ELSE ToString(n)

Fmt3(value) ==
    Sign(value) \o ToString(Scaled(value) \div 1000) \o "."
                \o Pad3(Scaled(value) % 1000)

-----------------------------------------------------------------------------
(* The fixed metric list and the report text *)

metrics == << <<"top1_hit_rate", "Top-1 hit rate">>, <<"mrr", "MRR">> >>

\* The markdown code quote of the report (U+0060), written as an apostrophe
\* because a TLA+ string cannot hold that character.
Tick == "'"

BeforePath == "pre.json"
AfterPath == "post.json"

HeaderLines(bf, af) ==
    << "# Ranking Budget Contract Diff Report",
       "",
       "- before profile: " \o Tick \o PyStr(Get(bf, "profile", Str("unknown"))) \o Tick,
       "- after profile: " \o Tick \o PyStr(Get(af, "profile", Str("unknown"))) \o Tick,
       "- before file: " \o Tick \o BeforePath \o Tick,
       "- after file: " \o Tick \o AfterPath \o Tick,
       "",
       "| Metric | Before | After | Delta |",
       "| --- | ---: | ---: | ---: |" >>

DeltaSwapped(a, b) == b - a

DeltaSum(a, b) == a + b

Delta(a, b) == a - b

MetricRow(bf, af, i) ==
    LET key == metrics[i][1]
        b == Float(Get(bf, key, Num(0)))
        a == Float(Get(af, key, Num(0)))
    IN  [key |-> key, label |-> metrics[i][2], b |-> b, a |-> a,
         delta |-> Delta(a, b)]

MetricLine(r) ==
    "| " \o r.label \o " | " \o pct(r.b) \o " | " \o pct(r.a) \o " | "
         \o pct(r.delta) \o " |"

CaseHeaderLines ==
    << "",
       "## Case-level deltas",
       "",
       "| Case | Before top1 | After top1 | Before RR | After RR |",
       "| --- | --- | --- | ---: | ---: |" >>

-----------------------------------------------------------------------------
(* Case index, id ordering and case rows *)

CasesOf(snapshot) == Get(snapshot, "cases", List(<<>>)).items

HasId(case) == "id" \in DOMAIN case

IndexRaisesWithoutCases(snapshot) ==
    \/ "cases" \notin DOMAIN snapshot
    \/ \E i \in 1..Len(CasesOf(snapshot)) : ~HasId(CasesOf(snapshot)[i])

\* case["id"] raises KeyError at the first entry without the key.
IndexRaises(snapshot) ==
    \E i \in 1..Len(CasesOf(snapshot)) : ~HasId(CasesOf(snapshot)[i])

RECURSIVE BuildIndexFirstWins(_)
BuildIndexFirstWins(cases) ==
    IF Len(cases) = 0 THEN EmptyDict
    ELSE LET n == Len(cases)
             prev == BuildIndexFirstWins(SubSeq(cases, 1, n - 1))
             case == cases[n]
             id == case["id"].s
         IN  [k \in (DOMAIN prev) \cup {id} |-> IF k \in DOMAIN prev THEN prev[k] ELSE case]

RECURSIVE BuildIndex(_)
BuildIndex(cases) ==
    IF Len(cases) = 0 THEN EmptyDict
    ELSE LET n == Len(cases)
             prev == BuildIndex(SubSeq(cases, 1, n - 1))
             case == cases[n]
             id == case["id"].s
         IN  [k \in (DOMAIN prev) \cup {id} |-> IF k = id THEN case ELSE prev[k]]

\* Python orders strings by code point: "c10" < "c2" because "1" < "2".
IdOrder == <<"c10", "c2">>

Rank(s) == CHOOSE i \in 1..Len(IdOrder) : IdOrder[i] = s

StrLess(s, u) == Rank(s) < Rank(u)

RECURSIVE sortedDescending(_)
sortedDescending(S) ==
    IF S = {} THEN <<>>
    ELSE LET m == CHOOSE x \in S : \A y \in S : x = y \/ StrLess(y, x)
         IN  <<m>> \o sortedDescending(S \ {m})

RECURSIVE sorted(_)
sorted(S) ==
    IF S = {} THEN <<>>
    ELSE LET m == CHOOSE x \in S : \A y \in S : x = y \/ StrLess(x, y)
         IN  <<m>> \o sorted(S \ {m})

CaseIdsCommonOnly(bc, ac) == sorted((DOMAIN bc) \cap (DOMAIN ac))

CaseIds(bc, ac) == sorted((DOMAIN bc) \cup (DOMAIN ac))

CaseRowSameIndex(bc, ac, case_id) ==
    LET b == Get(bc, case_id, EmptyDict)
        a == Get(bc, case_id, EmptyDict)
    IN  [id |-> case_id,
         b_top |-> Get(b, "observed_top_result_id", None),
         a_top |-> Get(a, "observed_top_result_id", None),
         b_rr |-> Float(Get(b, "reciprocal_rank", Num(0))),
         a_rr |-> Float(Get(a, "reciprocal_rank", Num(0)))]

CaseRow(bc, ac, case_id) ==
    LET b == Get(bc, case_id, EmptyDict)
        a == Get(ac, case_id, EmptyDict)
    IN  [id |-> case_id,
         b_top |-> Get(b, "observed_top_result_id", None),
         a_top |-> Get(a, "observed_top_result_id", None),
         b_rr |-> Float(Get(b, "reciprocal_rank", Num(0))),
         a_rr |-> Float(Get(a, "reciprocal_rank", Num(0)))]

CaseRowRaises(bc, ac, case_id) ==
    \/ ~IsNumber(Get(Get(bc, case_id, EmptyDict), "reciprocal_rank", Num(0)))
    \/ ~IsNumber(Get(Get(ac, case_id, EmptyDict), "reciprocal_rank", Num(0)))

CaseLine(r) ==
    "| " \o r.id \o " | " \o Tick \o PyStr(r.b_top) \o Tick \o " | "
         \o Tick \o PyStr(r.a_top) \o Tick \o " | "
         \o Fmt3(r.b_rr) \o " | " \o Fmt3(r.a_rr) \o " |"

RECURSIVE JoinLines(_)
JoinLines(ls) ==
    IF Len(ls) = 0 THEN "" ELSE JoinLines(SubSeq(ls, 1, Len(ls) - 1)) \o ls[Len(ls)] \o "\n"

-----------------------------------------------------------------------------
(* Files *)

Missing == [st |-> "missing", data |-> EmptyDict]
Malformed == [st |-> "malformed", data |-> EmptyDict]
JsonFile(d) == [st |-> "ok", data |-> d]

load(file) ==
    IF file.st = "missing" THEN [exc |-> "FileNotFoundError", val |-> EmptyDict]
    ELSE IF file.st = "malformed" THEN [exc |-> "JSONDecodeError", val |-> EmptyDict]
    ELSE [exc |-> "", val |-> file.data]

NoFile == [exists |-> FALSE, text |-> ""]
TextFile(text) == [exists |-> TRUE, text |-> text]

-----------------------------------------------------------------------------
(* main(), one action per statement or loop iteration *)

RaiseAndRetry(exc) == pc' = "load_before" /\ outcome' = exc

\* Nothing in main() catches: the exception ends the run.
Raise(exc) == pc' = "done" /\ outcome' = exc

LoadBefore ==
    /\ pc = "load_before"
    /\ IF load(beforeFile).exc # ""
       THEN Raise(load(beforeFile).exc) /\ UNCHANGED before
       ELSE before' = load(beforeFile).val /\ pc' = "load_after" /\ UNCHANGED outcome
    /\ UNCHANGED <<env, after, lines, metric_i, metricRows,
                   before_cases, after_cases, case_ids, case_i, caseRows>>

LoadAfter ==
    /\ pc = "load_after"
    /\ IF load(afterFile).exc # ""
       THEN Raise(load(afterFile).exc) /\ UNCHANGED after
       ELSE after' = load(afterFile).val /\ pc' = "header" /\ UNCHANGED outcome
    /\ UNCHANGED <<env, before, lines, metric_i, metricRows,
                   before_cases, after_cases, case_ids, case_i, caseRows>>

StartLines ==
    /\ pc = "header"
    /\ lines' = HeaderLines(before, after)
    /\ metric_i' = 1
    /\ pc' = "metrics"
    /\ UNCHANGED <<env, outcome, before, after, metricRows,
                   before_cases, after_cases, case_ids, case_i, caseRows>>

MetricStep ==
    /\ pc = "metrics"
    /\ metric_i <= Len(metrics)
    /\ IF \/ ~IsNumber(Get(before, metrics[metric_i][1], Num(0)))
          \/ ~IsNumber(Get(after, metrics[metric_i][1], Num(0)))
       THEN Raise("TypeError") /\ UNCHANGED <<lines, metric_i, metricRows>>
       ELSE /\ metricRows' = Append(metricRows, MetricRow(before, after, metric_i))
            /\ lines' = Append(lines, MetricLine(MetricRow(before, after, metric_i)))
            /\ metric_i' = metric_i + 1
            /\ pc' = IF metric_i = Len(metrics) THEN "index_before" ELSE "metrics"
            /\ UNCHANGED outcome
    /\ UNCHANGED <<env, before, after, before_cases, after_cases,
                   case_ids, case_i, caseRows>>

IndexBefore ==
    /\ pc = "index_before"
    /\ IF IndexRaises(before)
       THEN Raise("KeyError") /\ UNCHANGED before_cases
       ELSE before_cases' = BuildIndex(CasesOf(before)) /\ pc' = "index_after"
            /\ UNCHANGED outcome
    /\ UNCHANGED <<env, before, after, lines, metric_i, metricRows,
                   after_cases, case_ids, case_i, caseRows>>

IndexAfter ==
    /\ pc = "index_after"
    /\ IF IndexRaises(after)
       THEN Raise("KeyError") /\ UNCHANGED after_cases
       ELSE after_cases' = BuildIndex(CasesOf(after)) /\ pc' = "sort"
            /\ UNCHANGED outcome
    /\ UNCHANGED <<env, before, after, lines, metric_i, metricRows,
                   before_cases, case_ids, case_i, caseRows>>

SortIds ==
    /\ pc = "sort"
    /\ case_ids' = CaseIds(before_cases, after_cases)
    /\ pc' = "case_header"
    /\ UNCHANGED <<env, outcome, before, after, lines, metric_i, metricRows,
                   before_cases, after_cases, case_i, caseRows>>

ExtendLines ==
    /\ pc = "case_header"
    /\ lines' = lines \o CaseHeaderLines
    /\ case_i' = 1
    /\ pc' = IF Len(case_ids) = 0 THEN "mkdir" ELSE "cases"
    /\ UNCHANGED <<env, outcome, before, after, metric_i, metricRows,
                   before_cases, after_cases, case_ids, caseRows>>

CaseStep ==
    /\ pc = "cases"
    /\ case_i <= Len(case_ids)
    /\ IF CaseRowRaises(before_cases, after_cases, case_ids[case_i])
       THEN Raise("TypeError") /\ UNCHANGED <<lines, case_i, caseRows>>
       ELSE /\ caseRows' = Append(caseRows,
                                  CaseRow(before_cases, after_cases, case_ids[case_i]))
            /\ lines' = Append(lines,
                               CaseLine(CaseRow(before_cases, after_cases,
                                                case_ids[case_i])))
            /\ case_i' = case_i + 1
            /\ pc' = IF case_i = Len(case_ids) THEN "mkdir" ELSE "cases"
            /\ UNCHANGED outcome
    /\ UNCHANGED <<env, before, after, metric_i, metricRows,
                   before_cases, after_cases, case_ids>>

\* mkdir(parents=True, exist_ok=True): nothing to do, and nothing to fail, when
\* the directory is there.
Mkdir ==
    /\ pc = "mkdir"
    /\ IF ~parentExists /\ ioFault = "mkdir"
       THEN Raise("OSError") /\ UNCHANGED parentExists
       ELSE parentExists' = TRUE /\ pc' = "write" /\ UNCHANGED outcome
    /\ UNCHANGED <<beforeFile, afterFile, dest, ioFault, locals>>

\* write_text opens the destination with mode "w", which creates or truncates
\* it, then writes the text; a write that fails part-way leaves what was
\* flushed so far.
WriteText ==
    /\ pc = "write"
    /\ IF ioFault = "open"
       THEN Raise("OSError") /\ UNCHANGED dest
       ELSE IF ioFault = "write"
       THEN /\ \E n \in 0..(Len(lines) - 1) :
                  dest' = TextFile(JoinLines(SubSeq(lines, 1, n)))
            /\ Raise("OSError")
       ELSE dest' = TextFile(JoinLines(lines)) /\ pc' = "return" /\ UNCHANGED outcome
    /\ UNCHANGED <<beforeFile, afterFile, parentExists, ioFault, locals>>

Return ==
    /\ pc = "return"
    /\ pc' = "done"
    /\ outcome' = "return 0"
    /\ UNCHANGED <<env, locals>>

Next ==
    \/ LoadBefore
    \/ LoadAfter
    \/ StartLines
    \/ MetricStep
    \/ IndexBefore
    \/ IndexAfter
    \/ SortIds
    \/ ExtendLines
    \/ CaseStep
    \/ Mkdir
    \/ WriteText
    \/ Return

-----------------------------------------------------------------------------
(* Inputs *)

Absent == [t |-> "absent"]

Dict(full) == [k \in {x \in DOMAIN full : full[x] # Absent} |-> full[k]]

SeqsUpTo(S, n) == UNION {[1..k -> S] : k \in 0..n}

Snapshot(profile, top1, mrr, cases) ==
    Dict([profile |-> profile, top1_hit_rate |-> top1, mrr |-> mrr, cases |-> cases])

Case(id, top, rr) ==
    Dict([id |-> id, observed_top_result_id |-> top, reciprocal_rank |-> rr])

StartOfMain ==
    /\ pc = "load_before"
    /\ outcome = "running"
    /\ before = Unbound
    /\ after = Unbound
    /\ lines = <<>>
    /\ metric_i = 0
    /\ metricRows = <<>>
    /\ before_cases = Unbound
    /\ after_cases = Unbound
    /\ case_ids = <<>>
    /\ case_i = 0
    /\ caseRows = <<>>

OldReport == TextFile("# Ranking Budget Contract Diff Report\n(previous run)\n")

\* The snapshots of the documented example run.
ExampleBefore ==
    Snapshot(Str("v1"), Num(2000), Num(1625),
             List(<< Case(Str("c10"), Str("r1"), Num(2500)) >>))

ExampleAfter ==
    Snapshot(Str("v2"), Num(1875), Num(1500),
             List(<< Case(Str("c10"), Str("r2"), Num(1250)),
                     Case(Str("c2"), Str("r9"), Num(2500)) >>))

MetricValues == {Absent, Num(0), Num(1), Num(1875), Num(2000), Num(2500), Num(0 - 3)}

InitMetrics ==
    /\ StartOfMain
    /\ \E bt \in MetricValues, bm \in MetricValues, at \in MetricValues, am \in MetricValues :
          /\ beforeFile = JsonFile(Snapshot(Str("v1"), bt, bm, ExampleBefore["cases"]))
          /\ afterFile = JsonFile(Snapshot(Str("v2"), at, am, ExampleAfter["cases"]))
    /\ parentExists = FALSE
    /\ dest = NoFile
    /\ ioFault = "none"

SpecMetrics == InitMetrics /\ [][Next]_vars

-----------------------------------------------------------------------------
(* Aggregate metric rows *)

Stored(snapshot, key) == IF key \in DOMAIN snapshot THEN snapshot[key].v ELSE 0

\* C1: every aggregate row carries before = the value stored in the before
\* snapshot under the row's metric name, or 0 when the name is absent, after =
\* the same for the after snapshot, and delta = after - before; the rows follow
\* the fixed metric list, and the documented example renders as
\* 80.0% | 75.0% | -5.0%.
AggregateDeltaExact ==
    /\ Len(metricRows) <= Len(metrics)
    /\ \A i \in 1..Len(metricRows) :
          /\ metricRows[i].key = metrics[i][1]
          /\ metricRows[i].b = Stored(beforeFile.data, metrics[i][1])
          /\ metricRows[i].a = Stored(afterFile.data, metrics[i][1])
          /\ metricRows[i].delta = metricRows[i].a - metricRows[i].b
    /\ (/\ Len(metricRows) >= 1
        /\ metricRows[1].b = 2000
        /\ metricRows[1].a = 1875)
           => lines[10] = "| Top-1 hit rate | 80.0% | 75.0% | -5.0% |"

PresentIn(file, key) == key \in DOMAIN file.data

\* The four presence combinations in one finished run: top1_hit_rate only in the
\* after snapshot, mrr only in the before snapshot, both with non-zero values.
AggregateDeltaWitness ==
    /\ outcome = "return 0"
    /\ ~PresentIn(beforeFile, "top1_hit_rate") /\ PresentIn(afterFile, "top1_hit_rate")
    /\ PresentIn(beforeFile, "mrr") /\ ~PresentIn(afterFile, "mrr")
    /\ metricRows[1].delta = 1875
    /\ metricRows[2].delta = 0 - 2000

-----------------------------------------------------------------------------
(* Case rows *)

CaseFields == { <<Absent, Absent>>, <<Str("r1"), Num(2500)>>,
                <<Str(""), Num(833)>>, <<None, Absent>> }

CaseEntries == { Case(Str(id), f[1], f[2]) : id \in {"c10", "c2"}, f \in CaseFields }

InitCases ==
    /\ StartOfMain
    /\ \E bl \in SeqsUpTo(CaseEntries, MaxCases) :
       \E al \in SeqsUpTo(CaseEntries, MaxCases - Len(bl)) :
          /\ beforeFile = JsonFile(Snapshot(Str("v1"), Num(2000), Num(1625), List(bl)))
          /\ afterFile = JsonFile(Snapshot(Str("v2"), Num(1875), Num(1500), List(al)))
    /\ parentExists = FALSE
    /\ dest = NoFile
    /\ ioFault = "none"

SpecCases == InitCases /\ [][Next]_vars

BeforeList == CasesOf(beforeFile.data)
AfterList == CasesOf(afterFile.data)

IdsOf(list) == { list[i]["id"].s : i \in 1..Len(list) }

\* The entry of the list that comes last among those carrying the id.
LastEntry(list, id) ==
    list[CHOOSE i \in 1..Len(list) :
            /\ list[i]["id"].s = id
            /\ \A j \in (i + 1)..Len(list) : list[j]["id"].s # id]

RowIds == { caseRows[i].id : i \in 1..Len(caseRows) }

\* The loop over case_ids has run to its end.
RowsComplete ==
    \/ pc \in {"mkdir", "write", "return"}
    \/ pc = "done" /\ outcome \in {"return 0", "OSError"}

\* C2: in the case-level table no id appears twice and every id comes from one
\* of the two case lists; once the table is complete its ids are exactly the
\* union of the ids of the two lists, one row and one rendered line per id.
CaseCoverage ==
    /\ \A i, j \in 1..Len(caseRows) : caseRows[i].id = caseRows[j].id => i = j
    /\ RowIds \subseteq IdsOf(BeforeList) \cup IdsOf(AfterList)
    /\ RowsComplete =>
          /\ RowIds = IdsOf(BeforeList) \cup IdsOf(AfterList)
          /\ Len(caseRows) = Cardinality(IdsOf(BeforeList) \cup IdsOf(AfterList))
          /\ Len(lines) = Len(HeaderLines(before, after)) + Len(metrics)
                            + Len(CaseHeaderLines) + Len(caseRows)

\* A finished run whose before list repeats one id and whose after list brings
\* an id the before list lacks.
CaseCoverageWitness ==
    /\ outcome = "return 0"
    /\ Len(BeforeList) = 2 /\ Cardinality(IdsOf(BeforeList)) = 1
    /\ ~(IdsOf(AfterList) \subseteq IdsOf(BeforeList))
    /\ Len(caseRows) = 2

\* C4: each index holds, under every id of its case list, exactly the last
\* entry of the list that carries the id, and a row shows on each side the
\* top result and reciprocal rank of that last entry alone (the defaults for
\* whatever that entry omits).
LastWriteWins ==
    /\ before_cases # Unbound =>
          /\ DOMAIN before_cases = IdsOf(BeforeList)
          /\ \A id \in IdsOf(BeforeList) : before_cases[id] = LastEntry(BeforeList, id)
    /\ after_cases # Unbound =>
          /\ DOMAIN after_cases = IdsOf(AfterList)
          /\ \A id \in IdsOf(AfterList) : after_cases[id] = LastEntry(AfterList, id)
    /\ \A i \in 1..Len(caseRows) :
          LET r == caseRows[i]
          IN  /\ r.id \in IdsOf(BeforeList) =>
                    /\ r.b_top = Get(LastEntry(BeforeList, r.id), "observed_top_result_id", None)
                    /\ r.b_rr = Stored(LastEntry(BeforeList, r.id), "reciprocal_rank")
              /\ r.id \in IdsOf(AfterList) =>
                    /\ r.a_top = Get(LastEntry(AfterList, r.id), "observed_top_result_id", None)
                    /\ r.a_rr = Stored(LastEntry(AfterList, r.id), "reciprocal_rank")

\* A finished run whose before list carries c2 twice, first with both fields,
\* last with neither: the row shows the defaults, nothing of the first entry.
LastWriteWinsWitness ==
    /\ outcome = "return 0"
    /\ BeforeList = << Case(Str("c2"), Str("r1"), Num(2500)),
                       Case(Str("c2"), Absent, Absent) >>
    /\ \E i \in 1..Len(caseRows) :
          caseRows[i].id = "c2" /\ caseRows[i].b_top = None /\ caseRows[i].b_rr = 0

OnlyIn(list, other, id) == id \in IdsOf(list) /\ id \notin IdsOf(other)

CaseLineAt(i) == lines[Len(HeaderLines(before, after)) + Len(metrics)
                       + Len(CaseHeaderLines) + i]

\* C5: a row whose id is in one snapshot only has, on the missing side, no top
\* result (rendered None) and reciprocal rank 0 (rendered 0.000), and on the
\* present side the values recorded by that snapshot.
OneSidedDefaults ==
    \A i \in 1..Len(caseRows) :
        LET r == caseRows[i]
        IN  /\ OnlyIn(AfterList, BeforeList, r.id) =>
                  /\ r.b_top = None /\ r.b_rr = 0
                  /\ r.a_top = Get(LastEntry(AfterList, r.id), "observed_top_result_id", None)
                  /\ r.a_rr = Stored(LastEntry(AfterList, r.id), "reciprocal_rank")
                  /\ CaseLineAt(i) = "| " \o r.id \o " | 'None' | '" \o PyStr(r.a_top)
                                       \o "' | 0.000 | " \o Fmt3(r.a_rr) \o " |"
            /\ OnlyIn(BeforeList, AfterList, r.id) =>
                  /\ r.a_top = None /\ r.a_rr = 0
                  /\ r.b_top = Get(LastEntry(BeforeList, r.id), "observed_top_result_id", None)
                  /\ r.b_rr = Stored(LastEntry(BeforeList, r.id), "reciprocal_rank")
                  /\ CaseLineAt(i) = "| " \o r.id \o " | '" \o PyStr(r.b_top)
                                       \o "' | 'None' | " \o Fmt3(r.b_rr) \o " | 0.000 |"

\* A finished run with c10 only in the before snapshot and c2 only in the after
\* snapshot, each recorded with a top result and a non-zero reciprocal rank.
OneSidedDefaultsWitness ==
    /\ outcome = "return 0"
    /\ BeforeList = << Case(Str("c10"), Str("r1"), Num(2500)) >>
    /\ AfterList = << Case(Str("c2"), Str(""), Num(833)) >>
    /\ lines[17] = "| c10 | 'r1' | 'None' | 1.000 | 0.000 |"
    /\ lines[18] = "| c2 | 'None' | '' | 0.000 | 0.333 |"

-----------------------------------------------------------------------------
(* Row order *)

Reorderings(list) ==
    { [i \in 1..Len(list) |-> list[p[i]]] :
        p \in { q \in [1..Len(list) -> 1..Len(list)] :
                  \A i, j \in 1..Len(list) : q[i] = q[j] => i = j } }

\* The case rows main() computes from two case lists.
RowsFor(bl, al) ==
    LET bc == BuildIndex(bl)
        ac == BuildIndex(al)
        ids == CaseIds(bc, ac)
    IN  [i \in 1..Len(ids) |-> CaseRow(bc, ac, ids[i])]

Ascending == \A i, j \in 1..Len(caseRows) : i < j => StrLess(caseRows[i].id, caseRows[j].id)

\* Entries of one list that share an id are the same entry.
NoConflict(list) ==
    \A i, j \in 1..Len(list) : list[i]["id"].s = list[j]["id"].s => list[i] = list[j]

\* C3 as stated: the rows are in strictly ascending id order, and every
\* reordering of the before list and of the after list gives the same rows.
OrderIndependent ==
    /\ Ascending
    /\ RowsComplete =>
          \A bl \in Reorderings(BeforeList), al \in Reorderings(AfterList) :
              RowsFor(bl, al) = caseRows

\* C3 as amended: the rows are in strictly ascending id order; when no list
\* holds two different entries under one id, every reordering of the before
\* list and of the after list gives the same rows.
OrderIndependentWithoutConflict ==
    /\ Ascending
    /\ (RowsComplete /\ NoConflict(BeforeList) /\ NoConflict(AfterList)) =>
          \A bl \in Reorderings(BeforeList), al \in Reorderings(AfterList) :
              RowsFor(bl, al) = caseRows

\* A finished run whose before list has c2 ahead of c10 and whose after list
\* records c2 differently: the rows come out c10 first.
OrderIndependentWitness ==
    /\ outcome = "return 0"
    /\ Len(BeforeList) = 2 /\ Len(AfterList) = 1
    /\ BeforeList[1]["id"].s = "c2" /\ BeforeList[2]["id"].s = "c10"
    /\ AfterList[1]["id"].s = "c2"
    /\ BeforeList[1] # AfterList[1]
    /\ Len(caseRows) = 2 /\ caseRows[1].id = "c10" /\ caseRows[2].id = "c2"

-----------------------------------------------------------------------------
(* Self-diff *)

\* Most case entries in the snapshot that is compared with itself.
MaxSelfCases == 2

InitSelf ==
    /\ StartOfMain
    /\ \E profile \in {Absent, Str("v1")},
          top1 \in {Absent, Num(1), Num(2000)},
          mrr \in {Absent, Num(1625)},
          cases \in {Absent} \cup { List(l) : l \in SeqsUpTo(CaseEntries, MaxSelfCases) } :
          /\ beforeFile = JsonFile(Snapshot(profile, top1, mrr, cases))
          /\ afterFile = beforeFile
    /\ parentExists = FALSE
    /\ dest = NoFile
    /\ ioFault = "none"

SpecSelf == InitSelf /\ [][Next]_vars

MetricLineAt(i) == lines[Len(HeaderLines(before, after)) + i]

\* C6: when both sides are the same snapshot, every aggregate row has before =
\* after and delta = 0 (rendered 0.0%), every case row has the same top result
\* and the same reciprocal rank on both sides, and the complete table has
\* exactly the distinct ids of the snapshot.
SelfDiffNeutral ==
    beforeFile = afterFile =>
        /\ \A i \in 1..Len(metricRows) :
              /\ metricRows[i].b = metricRows[i].a
              /\ metricRows[i].delta = 0
              /\ MetricLineAt(i) = "| " \o metrics[i][2] \o " | " \o pct(metricRows[i].b)
                                     \o " | " \o pct(metricRows[i].b) \o " | 0.0% |"
        /\ \A i \in 1..Len(caseRows) :
              /\ caseRows[i].b_top = caseRows[i].a_top
              /\ caseRows[i].b_rr = caseRows[i].a_rr
        /\ RowsComplete =>
              /\ RowIds = IdsOf(BeforeList)
              /\ Len(caseRows) = Cardinality(IdsOf(BeforeList))

\* A finished self-diff of a snapshot without mrr, with a non-zero top1_hit_rate
\* and with c2 listed twice, the last time without its optional fields.
SelfDiffWitness ==
    /\ outcome = "return 0"
    /\ beforeFile = afterFile
    /\ ~PresentIn(beforeFile, "mrr")
    /\ metricRows[1].b = 2000
    /\ BeforeList = << Case(Str("c2"), Str("r1"), Num(2500)),
                       Case(Str("c2"), Absent, Absent) >>
    /\ Len(caseRows) = 1

-----------------------------------------------------------------------------
(* Optional fields *)

OptionalCases ==
    {Absent, List(<<>>)}
      \cup { List(<< Case(Str("c2"), f[1], f[2]) >>) : f \in CaseFields }
      \cup { List(<< Case(Str("c2"), f[1], f[2]), Case(Str("c10"), Str("r9"), Num(1250)) >>) :
               f \in CaseFields }
      \cup { List(<< Case(Str("c2"), Absent, None) >>) }

OptionalSnapshots ==
    { Snapshot(profile, top1, mrr, cases) :
        profile \in {Absent, Str("v1")},
        top1 \in {Absent, Num(2000)},
        mrr \in {Absent, Num(1625)},
        cases \in OptionalCases }

InitOptional ==
    /\ StartOfMain
    /\ beforeFile \in { JsonFile(d) : d \in OptionalSnapshots }
    /\ afterFile \in { JsonFile(d) : d \in OptionalSnapshots }
    /\ parentExists \in BOOLEAN
    /\ dest = NoFile
    /\ ioFault \in {"none", "open"}

SpecOptional == InitOptional /\ [][Next]_vars

InputExceptions == {"FileNotFoundError", "JSONDecodeError", "KeyError", "TypeError"}

Readable(file) == file.st = "ok"

AllCasesHaveId(file) == \A i \in 1..Len(CasesOf(file.data)) : HasId(CasesOf(file.data)[i])

\* Every metric and reciprocal rank that is present is a number.
WellTyped(file) ==
    /\ \A i \in 1..Len(metrics) : IsNumber(Get(file.data, metrics[i][1], Num(0)))
    /\ \A i \in 1..Len(CasesOf(file.data)) :
          IsNumber(Get(CasesOf(file.data)[i], "reciprocal_rank", Num(0)))

ProfileShown(file) == IF PresentIn(file, "profile") THEN file.data["profile"].s ELSE "unknown"

\* C9: with both snapshots readable and well formed, every case carrying an
\* id and every present metric and reciprocal rank a number, no exception is
\* raised on the input whatever optional fields are absent; unless the write
\* itself fails the run
\* returns 0 with the whole report at the destination; and the absent fields
\* show their defaults: profile unknown, metric 0, no cases, no top result,
\* reciprocal rank 0.
AbsenceTolerated ==
    (Readable(beforeFile) /\ Readable(afterFile)
       /\ AllCasesHaveId(beforeFile) /\ AllCasesHaveId(afterFile)
       /\ WellTyped(beforeFile) /\ WellTyped(afterFile)) =>
        /\ outcome \notin InputExceptions
        /\ (pc = "done" /\ ioFault = "none") =>
              /\ outcome = "return 0"
              /\ dest = TextFile(JoinLines(lines))
              /\ RowsComplete /\ Len(metricRows) = Len(metrics)
        /\ Len(lines) > 0 =>
              /\ lines[3] = "- before profile: '" \o ProfileShown(beforeFile) \o "'"
              /\ lines[4] = "- after profile: '" \o ProfileShown(afterFile) \o "'"
        /\ \A i \in 1..Len(metricRows) :
              /\ ~PresentIn(beforeFile, metrics[i][1]) => metricRows[i].b = 0
              /\ ~PresentIn(afterFile, metrics[i][1]) => metricRows[i].a = 0
        /\ (before_cases # Unbound /\ ~PresentIn(beforeFile, "cases")) => DOMAIN before_cases = {}
        /\ (after_cases # Unbound /\ ~PresentIn(afterFile, "cases")) => DOMAIN after_cases = {}
        /\ \A i \in 1..Len(caseRows) :
              LET r == caseRows[i]
              IN  /\ (r.id \in IdsOf(BeforeList)
                        /\ "observed_top_result_id" \notin DOMAIN LastEntry(BeforeList, r.id))
                       => r.b_top = None
                  /\ (r.id \in IdsOf(BeforeList)
                        /\ "reciprocal_rank" \notin DOMAIN LastEntry(BeforeList, r.id))
                       => r.b_rr = 0
                  /\ (r.id \in IdsOf(AfterList)
                        /\ "observed_top_result_id" \notin DOMAIN LastEntry(AfterList, r.id))
                       => r.a_top = None
                  /\ (r.id \in IdsOf(AfterList)
                        /\ "reciprocal_rank" \notin DOMAIN LastEntry(AfterList, r.id))
                       => r.a_rr = 0

\* A finished run of an empty before snapshot against an after snapshot whose
\* only case has nothing but its id.
AbsenceToleratedWitness ==
    /\ outcome = "return 0"
    /\ DOMAIN beforeFile.data = {}
    /\ DOMAIN afterFile.data = {"cases"}
    /\ AfterList = << Case(Str("c2"), Absent, Absent) >>
    /\ lines[10] = "| Top-1 hit rate | 0.0% | 0.0% | 0.0% |"
    /\ lines[17] = "| c2 | 'None' | 'None' | 0.000 | 0.000 |"
    /\ dest = TextFile(JoinLines(lines))

-----------------------------------------------------------------------------
(* Failures *)

FaultySnapshots ==
    { ExampleBefore, ExampleAfter, EmptyDict,
      \* a case entry without an id
      Snapshot(Str("v1"), Num(2000), Num(1625),
               List(<< Case(Str("c10"), Str("r1"), Num(2500)),
                       Case(Absent, Str("r2"), Num(1250)) >>)),
      \* "reciprocal_rank": null
      Snapshot(Str("v1"), Num(2000), Num(1625),
               List(<< Case(Str("c2"), Str("r1"), None) >>)),
      \* "top1_hit_rate": null
      Snapshot(Str("v1"), None, Num(1625), List(<<>>)) }

Files == {Missing, Malformed} \cup { JsonFile(d) : d \in FaultySnapshots }

InitIO ==
    /\ StartOfMain
    /\ beforeFile \in Files
    /\ afterFile \in Files
    /\ parentExists \in BOOLEAN
    /\ dest \in (IF parentExists THEN {NoFile, OldReport} ELSE {NoFile})
    /\ ioFault \in {"none", "mkdir", "open", "write"}

SpecIO == InitIO /\ [][Next]_vars

\* main() is straight-line synchronous code: a run that can take a step takes it.
FairSpecIO == InitIO /\ [][Next]_vars /\ WF_vars(Next)

\* C7: a step that ends the run in a write error leaves the destination as it
\* was, and a step that writes without error leaves the complete report there.
WriteAllOrNothing ==
    [][/\ (pc = "write" /\ outcome' = "OSError") => dest' = dest
       /\ (pc = "write" /\ outcome' # "OSError") => dest' = TextFile(JoinLines(lines))]_vars

\* The snapshot is unreadable, malformed, or has a case entry without an id.
FatalInput(file) == ~Readable(file) \/ ~AllCasesHaveId(file)

\* C8: when either snapshot is unreadable, malformed or has a case entry
\* without an id, no step creates or changes the destination or its parent
\* directory and the run does not return 0; and only those conditions make the
\* run end in an input exception.
FatalInputAborts ==
    /\ [][(FatalInput(beforeFile) \/ FatalInput(afterFile))
            => (dest' = dest /\ parentExists' = parentExists)]_vars
    /\ []((FatalInput(beforeFile) \/ FatalInput(afterFile)) => outcome # "return 0")
    /\ [](outcome \in InputExceptions => (FatalInput(beforeFile) \/ FatalInput(afterFile)))

-----------------------------------------------------------------------------
(* Order of the run *)

Loaded == before # Unbound /\ after # Unbound

Indexed == before_cases # Unbound /\ after_cases # Unbound

Diffed == Len(metricRows) = Len(metrics) /\ RowsComplete

\* C10 as stated: both snapshots are loaded before an index is built, both
\* indexes are built before any delta is computed, the deltas are computed
\* before anything is rendered, and the destination is written only after
\* rendering; a finished run has succeeded or raised.
StagedPipeline ==
    /\ (before_cases # Unbound \/ after_cases # Unbound) => Loaded
    /\ (Len(metricRows) > 0 \/ Len(caseRows) > 0) => Indexed
    /\ Len(lines) > 0 => Diffed
    /\ pc \in {"return", "done"} /\ outcome \in {"running", "return 0"} => Diffed
    /\ pc = "done" => outcome # "running"

Position ==
    [load_before |-> 1, load_after |-> 2, header |-> 3, metrics |-> 4,
     index_before |-> 5, index_after |-> 6, sort |-> 7, case_header |-> 8,
     cases |-> 9, mkdir |-> 10, write |-> 11, return |-> 12, done |-> 13]

\* C10 as amended: the run moves forward only, through load before, load
\* after, header, aggregate rows, before index, after index, sorted ids, case
\* header, case rows, mkdir, write, return, staying at a loop only to take its
\* next item; both snapshots are loaded before anything is rendered, the
\* aggregate rows are computed and rendered before the indexes are built, both
\* indexes are built before any case row, the destination changes only at the
\* write after every row is rendered; the run ends, once, with return 0 or with
\* an exception, and nothing happens after that.
LinearPipeline ==
    /\ [][/\ Position[pc'] >= Position[pc]
          /\ pc' = pc => (metric_i' = metric_i + 1 \/ case_i' = case_i + 1)
          /\ pc' # pc => (pc' = "done" \/ Position[pc'] = Position[pc] + 1
                            \/ (pc = "case_header" /\ pc' = "mkdir"))
          /\ pc # "done"
          /\ dest' # dest => (pc = "write" /\ Diffed)]_vars
    /\ [](/\ Len(lines) > 0 => Loaded
          /\ before_cases # Unbound => (Loaded /\ Len(metricRows) = Len(metrics))
          /\ after_cases # Unbound => before_cases # Unbound
          /\ Len(caseRows) > 0 => Indexed
          /\ (pc = "done") <=> (outcome # "running")
          /\ outcome = "return 0" => (Diffed /\ dest = TextFile(JoinLines(lines))))
    /\ <>(pc = "done")

\* A finished, successful run with two case rows, its report at the destination.
LinearPipelineWitness ==
    /\ pc = "done" /\ outcome = "return 0"
    /\ Len(caseRows) = 2
    /\ dest = TextFile(JoinLines(lines))

====
